---- MODULE Spec2Model ----
(***************************************************************************)
(* Model of the DatabaseService of the Hebrew lexicon extractor            *)
(* (services/db: sql.js engine + localforage cache + local Node server).   *)
(*                                                                         *)
(* Every action is one run of the code between two suspension points       *)
(* (await) of the browser's single thread.  A save() whose promise nobody  *)
(* awaits lives on as a task in `saves`.                                   *)
(***************************************************************************)
EXTENDS Integers, Sequences, FiniteSets, TLC

\* ------------------------------------------------------------------ bounds
MaxOps == 2        \* mutating calls (addEntries / deleteEntries) on a ready service
MaxStartupOps == 1 \* mutating calls made while and after the service starts up
MaxLen == 2        \* longest entry list / id list handed to one call
MaxClock == 2      \* largest value Date.now() takes
NumIds == 2        \* distinct entry ids
MaxResets == 1     \* resetDatabase() calls ("Create new database") in one run
MaxPages == 3      \* page images uploaded in one run

Ids == 1..NumIds

\* --------------------------------------------------------- program constants
\* 'SQLite format 3\u0000' as byte values
SQLITE_HEADER == <<83, 81, 76, 105, 116, 101, 32, 102, 111, 114, 109, 97, 116, 32, 51, 0>>

\* the static paths of the prebuilt step: '/lexicon.sqlite', '/prebuilt/lexicon.sqlite'
tryPaths == <<"/lexicon.sqlite", "/prebuilt/lexicon.sqlite">>

\* the columns added after the original schema
MigratedColumns == {"isRoot", "strongsNumbers"}

Undefined == "undefined"

\* value of a column the table does not have
NoCol == "<no column>"

\* ------------------------------------------------------------- data: files
\* A database file: its leading bytes, whether the rest is a well-formed
\* SQLite image, and (when it is) the entries table it holds.
EmptyRows == [i \in {} |-> 0]

\* new SQL.Database(): an empty file without any table
NewFile == [head |-> <<>>, sound |-> TRUE, hasTable |-> FALSE, cols |-> {}, rows |-> EmptyRows]

\* the file after initSchema's CREATE TABLE IF NOT EXISTS on a new database
SchemaFile == [head |-> SQLITE_HEADER, sound |-> TRUE, hasTable |-> TRUE,
               cols |-> MigratedColumns, rows |-> EmptyRows]

\* a blob as fetch().arrayBuffer() / localforage.getItem deliver it; absent = null / 404
NoBlob == [present |-> FALSE, file |-> NewFile]
BlobOf(f) == [present |-> TRUE, file |-> f]

\* isSqliteFile without the comparison of the header
isSqliteFileNoCheck(buffer) == buffer.present

\* isSqliteFile(buffer)
isSqliteFile(buffer) ==
    IF ~buffer.present THEN FALSE
    ELSE IF Len(buffer.file.head) < Len(SQLITE_HEADER) THEN FALSE
    ELSE SubSeq(buffer.file.head, 1, Len(SQLITE_HEADER)) = SQLITE_HEADER

\* this.db: null or an engine holding a file in memory
NullDb == [state |-> "null", file |-> NewFile]

\* new this.SQL.Database(bytes): the bytes become the engine's file (sqlite
\* opens lazily: a file that is not a database is detected by the first query)
OpenDatabase(blob) == [state |-> "open", file |-> blob.file]

\* new this.SQL.Database()
NewDatabase == [state |-> "open", file |-> NewFile]

\* this.db.export(): the bytes of the engine's file
Export(d) == BlobOf(d.file)

\* a statement on this engine throws (file is not a database / malformed)
QueryThrows(d) ==
    \/ ~d.file.sound
    \/ d.file.head # <<>> /\ d.file.head # SQLITE_HEADER

\* ----------------------------------------------------------- data: entries
\* ALTER TABLE entries ADD COLUMN <columnName> <columnDef>: rows that exist get
\* the column's default (0 for isRoot, '' for strongsNumbers)
ColumnDefault(columnName) == IF columnName = "isRoot" THEN "0" ELSE ""

AddColumn(f, columnName) ==
    [f EXCEPT !.head = SQLITE_HEADER,
              !.cols = @ \cup {columnName},
              !.rows = [i \in DOMAIN f.rows |->
                          [f.rows[i] EXCEPT ![columnName] = ColumnDefault(columnName)]]]

\* ensureColumn without the look at PRAGMA table_info: it alters the table
\* whenever there is one
ensureColumnAlways(d, columnName) ==
    IF d.state = "null" THEN <<d, FALSE>>
    ELSE IF ~d.file.hasTable THEN <<d, FALSE>>
    ELSE <<[d EXCEPT !.file = AddColumn(d.file, columnName)], TRUE>>

\* ensureColumn(columnName, columnDef) on engine d: <<engine after, changed>>.
\* PRAGMA table_info(entries) throws on a file that is not a database; that
\* case is decided by the caller with QueryThrows before it calls this.
ensureColumn(d, columnName) ==
    IF d.state = "null" THEN <<d, FALSE>>
    ELSE IF ~d.file.hasTable THEN <<d, FALSE>>
    ELSE IF columnName \in d.file.cols THEN <<d, FALSE>>
    ELSE <<[d EXCEPT !.file = AddColumn(d.file, columnName)], TRUE>>

\* initSchema that does not run its CREATE TABLE statement
CreateSchemaSkipped(f) == f

\* CREATE TABLE IF NOT EXISTS entries (...) of initSchema
CreateSchema(f) ==
    IF f.hasTable THEN f
    ELSE [f EXCEPT !.head = SQLITE_HEADER, !.hasTable = TRUE, !.cols = MigratedColumns]

\* ------------------------------------------------------------ environment
\* A stored image with one row whose hebrewWord tells where the image was put.
SampleRow(tag) == [hebrewWord |-> tag, partOfSpeech |-> "n", root |-> "", isRoot |-> "1",
                   strongsNumbers |-> "", dateAdded |-> 0]

SampleFile(tag) == [head |-> SQLITE_HEADER, sound |-> TRUE, hasTable |-> TRUE,
                    cols |-> MigratedColumns, rows |-> (1 :> SampleRow(tag))]

\* an image written before the isRoot / strongsNumbers columns existed
LegacyFile(tag) == [head |-> SQLITE_HEADER, sound |-> TRUE, hasTable |-> TRUE, cols |-> {},
                    rows |-> (1 :> [SampleRow(tag) EXCEPT !.isRoot = NoCol,
                                                          !.strongsNumbers = NoCol])]

\* '<!DOCTYPE html>...' : the dev server's answer for a static file that is missing
HtmlFile == [head |-> <<60, 33, 68, 79, 67, 84, 89, 80, 69, 32, 104, 116, 109, 108, 62, 10>>,
             sound |-> FALSE, hasTable |-> FALSE, cols |-> {}, rows |-> EmptyRows]

\* fewer bytes than the header has
ShortFile == [head |-> <<83, 81, 76>>, sound |-> FALSE, hasTable |-> FALSE, cols |-> {},
              rows |-> EmptyRows]

ServerFiles == {NoBlob, BlobOf(HtmlFile), BlobOf(SampleFile("server"))}
CacheBlobs == {NoBlob, BlobOf(ShortFile), BlobOf(SampleFile("cache")), BlobOf(LegacyFile("cache"))}
PrebuiltBlobs == {NoBlob, BlobOf(HtmlFile), BlobOf(SampleFile("prebuilt"))}
\* a blob that starts with the SQLite header but is no database behind it
\* (truncated or overwritten pages): every statement on it throws
CorruptFile == [head |-> SQLITE_HEADER, sound |-> FALSE, hasTable |-> FALSE, cols |-> {},
                rows |-> EmptyRows]

\* a well-formed SQLite database that has no entries table
TablelessFile == [head |-> SQLITE_HEADER, sound |-> TRUE, hasTable |-> FALSE, cols |-> {},
                  rows |-> EmptyRows]

\* the images a startup may meet, the malformed and the foreign ones included
ServerImages == {NoBlob, BlobOf(CorruptFile), BlobOf(TablelessFile),
                 BlobOf(SampleFile("server")), BlobOf(LegacyFile("server"))}
CacheImages == {NoBlob, BlobOf(ShortFile), BlobOf(CorruptFile), BlobOf(TablelessFile),
                BlobOf(SampleFile("cache")), BlobOf(LegacyFile("cache"))}
PrebuiltImages == {NoBlob, BlobOf(CorruptFile), BlobOf(TablelessFile),
                   BlobOf(LegacyFile("prebuilt"))}

\* strongs.sqlite: the table strongs(number, lemma); two numbers for the lemma
\* "w3", a row without number for "w2"
StrongsFile == [head |-> SQLITE_HEADER, sound |-> TRUE, hasTable |-> TRUE,
                cols |-> {"number", "lemma"},
                rows |-> <<[lemma |-> "w3", number |-> "H1"],
                           [lemma |-> "w3", number |-> "H2"],
                           [lemma |-> "w2", number |-> ""]>>]

StrongsBlobs == {NoBlob, BlobOf(HtmlFile), BlobOf(StrongsFile)}

\* ------------------------------------------------------------------ state
VARIABLES
    db,               \* this.db
    isReady,          \* this.isReady
    loadSource,       \* this.loadSource ("null" | 'server' | 'indexedDB' | ...)
    serverAvailable,  \* this.serverAvailable
    strongsDb,        \* this.strongsDb
    cache,            \* localforage item STORE_KEY
    serverUp,         \* the Node server runs
    serverFile,       \* public/lexicon.sqlite as the server stores it
    prebuilt,         \* what the static paths of tryPaths answer
    initPc,           \* where init() is suspended
    initIdx,          \* index into tryPaths of the fetch init() waits for
    saves,            \* persistence work in flight, oldest first
    downloads,        \* lexicon.sqlite downloads offered to the user
    clock,            \* last value Date.now() returned
    opsLeft,          \* mutating calls the callers still make
    ret,              \* the last call of a mutation entry point and how it ended
    atCall,           \* history: cache and server file as they were when init() was
                      \* called, and whether a cache write was in flight then
    cycles,           \* history: persistence cycles (save()) the mutation entry points started
    failures,         \* history: cache writes and pushes that failed
    resets,           \* history: resetDatabase() calls made so far
    lookup,           \* what the last getStrongNumbersFor call returned
    pages,            \* the App's pages state: status and error of each uploaded page
    cursor,           \* the page handleFilesSelected waits for (0: no loop is running)
    requests          \* history: the pages extractEntriesFromImage was called for

vars == <<db, isReady, loadSource, serverAvailable, strongsDb, cache, serverUp, serverFile,
          prebuilt, initPc, initIdx, saves, downloads, clock, opsLeft, ret, atCall, cycles,
          failures, resets, lookup, pages, cursor, requests>>

envVars == <<serverUp, prebuilt>>

histVars == <<atCall, cycles, failures>>

\* what only the callers of resetDatabase() and getStrongNumbersFor() change
appVars == <<resets, lookup, pages, cursor, requests>>

\* ret: the entry point called last (op), whether it threw to its caller, whether
\* a row of the batch failed, whether it started a persistence cycle (saved);
\* replaced: a row of the batch took the place of a stored row; repeated: an id
\* came twice in the list; removed: a stored row was deleted; empty: the list
\* was empty; undone: rows written before the failing row were rolled back
NoCall == [op |-> "none", threw |-> FALSE, rowFailed |-> FALSE, saved |-> FALSE,
           replaced |-> FALSE, repeated |-> FALSE, removed |-> FALSE, empty |-> FALSE,
           undone |-> FALSE]

Init ==
    /\ db = NullDb
    /\ isReady = FALSE
    /\ loadSource = "null"
    /\ serverAvailable = FALSE
    /\ strongsDb = NullDb
    /\ cache \in CacheBlobs
    /\ serverUp \in BOOLEAN
    /\ serverFile \in ServerFiles
    /\ prebuilt \in [1..Len(tryPaths) -> PrebuiltBlobs]
    /\ initPc = "idle"
    /\ initIdx = 1
    /\ saves = <<>>
    /\ downloads = 0
    /\ clock = 0
    /\ opsLeft = MaxStartupOps
    /\ ret = NoCall
    /\ atCall = [cache |-> cache, serverFile |-> serverFile, writing |-> FALSE]
    /\ cycles = 0
    /\ failures = 0
    /\ resets = 0
    /\ lookup = <<>>
    /\ pages = <<>>
    /\ cursor = 0
    /\ requests = <<>>

\* ------------------------------------------------------- persistence tasks
\* A run of save() or pushToServer() that is suspended: at `await
\* localforage.setItem` ("setItem", data = the exported image) or at `await
\* fetch(POST)` ("post", data = the request body).  awaiter names the place of
\* init() that awaits the run, "none" when the caller dropped the promise.
Task(pc, d, awaiter) == [pc |-> pc, data |-> Export(d), awaiter |-> awaiter]

\* the operations on the localforage item; IndexedDB runs them in the order
\* they were made
CacheOps == {"setItem", "removeItem"}

RemoveAt(seq, i) == SubSeq(seq, 1, i - 1) \o SubSeq(seq, i + 1, Len(seq))

\* save() up to its first await: `if (!this.db) return; data = this.db.export();
\* await localforage.setItem(STORE_KEY, data)`
save(sv, d, awaiter) ==
    IF d.state = "null" THEN sv ELSE Append(sv, Task("setItem", d, awaiter))

\* ------------------------------------------------------ init(): the steps
\* Each operator below is the rest of init() from one place up to the next
\* await; d, src, sv are this.db, this.loadSource and the tasks as that
\* place finds them.

\* the migration step with a save() that is started but not awaited
MigrateNotAwaited(d, src, sv, dl) ==
    /\ loadSource' = src
    /\ downloads' = dl
    /\ initIdx' = initIdx
    /\ initPc' = IF d.state # "null" /\ QueryThrows(d) THEN "threw:query" ELSE "loadStrongs"
    /\ IF d.state = "null" \/ QueryThrows(d)
       THEN db' = d /\ saves' = sv
       ELSE LET r1 == ensureColumn(d, "isRoot")
                r2 == ensureColumn(r1[1], "strongsNumbers")
            IN /\ db' = r2[1]
               /\ saves' = IF r1[2] \/ r2[2] THEN save(sv, r2[1], "none") ELSE sv

\* `if (this.db) { ensureIsRootColumn(); ensureStrongsColumn(); if (changed) await
\* this.save() }  await this.loadStrongNumbersDb()`
Migrate(d, src, sv, dl) ==
    /\ loadSource' = src
    /\ downloads' = dl
    /\ initIdx' = initIdx
    /\ IF d.state = "null"
       THEN db' = d /\ saves' = sv /\ initPc' = "loadStrongs"
       ELSE IF QueryThrows(d)
       THEN db' = d /\ saves' = sv /\ initPc' = "threw:query"
       ELSE LET r1 == ensureColumn(d, "isRoot")
                r2 == ensureColumn(r1[1], "strongsNumbers")
            IN /\ db' = r2[1]
               /\ IF r1[2] \/ r2[2]
                  THEN saves' = save(sv, r2[1], "migrate") /\ initPc' = "migrateSave"
                  ELSE saves' = sv /\ initPc' = "loadStrongs"

\* a fresh step that offers the download without looking at serverAvailable
FreshAlwaysDownloads(sv) ==
    LET d1 == [NewDatabase EXCEPT !.file = CreateSchema(@)]
    IN Migrate(d1, "fresh", save(sv, d1, "none"), downloads + 1)

\* a fresh step that does not assign loadSource
FreshKeepsSource(sv) ==
    LET d1 == [NewDatabase EXCEPT !.file = CreateSchema(@)]
        sv1 == save(sv, d1, "none")
    IN IF serverAvailable
       THEN /\ db' = d1
            /\ loadSource' = loadSource
            /\ saves' = Append(sv1, Task("post", d1, "fresh"))
            /\ initPc' = "freshPush"
            /\ UNCHANGED <<initIdx, downloads>>
       ELSE Migrate(d1, loadSource, sv1, downloads + 1)

\* step 5: `this.db = new this.SQL.Database(); this.loadSource = 'fresh';
\* this.initSchema()` (whose save() nobody awaits), then the push or the download
Fresh(sv) ==
    LET d1 == [NewDatabase EXCEPT !.file = CreateSchema(@)]
        sv1 == save(sv, d1, "none")
    IN IF serverAvailable
       THEN /\ db' = d1
            /\ loadSource' = "fresh"
            /\ saves' = Append(sv1, Task("post", d1, "fresh"))
            /\ initPc' = "freshPush"
            /\ UNCHANGED <<initIdx, downloads>>
       ELSE Migrate(d1, "fresh", sv1, downloads + 1)

\* the for loop over tryPaths moves on from path idx
NextPath(idx, d, src, sv) ==
    IF idx < Len(tryPaths)
    THEN /\ db' = d
         /\ loadSource' = src
         /\ saves' = sv
         /\ initPc' = "fetchPrebuilt"
         /\ initIdx' = idx + 1
         /\ UNCHANGED downloads
    ELSE Fresh(sv)

\* steps 3 and 4 start with `if (!this.db)`
AfterServerStep(d, src, sv) ==
    IF d.state = "null"
    THEN /\ db' = d
         /\ loadSource' = src
         /\ saves' = sv
         /\ initPc' = "getItem"
         /\ UNCHANGED <<initIdx, downloads>>
    ELSE Migrate(d, src, sv, downloads)

\* `throw error` of init(); the place it stops at names what threw
ThrewPcs == {"threw:initSqlJs", "threw:getItem", "threw:query", "threw:save"}

InitThrows(cause) ==
    /\ initPc' = cause
    /\ UNCHANGED <<db, loadSource, saves, initIdx, downloads>>

\* A task ended (ok: its promise fulfilled); sv are the tasks left.  The code
\* that awaited it goes on.
Resume(awaiter, ok, sv) ==
    CASE awaiter = "none" ->
            /\ saves' = sv
            /\ UNCHANGED <<db, loadSource, initPc, initIdx, downloads>>
      [] awaiter = "prebuilt" ->
            \* `await this.save(); loadedFromFile = true; break` inside try/catch
            IF ok THEN Migrate(db, loadSource, sv, downloads)
            ELSE NextPath(initIdx, db, loadSource, sv)
      [] awaiter = "fresh" ->
            Migrate(db, loadSource, sv, downloads)
      [] awaiter = "migrate" ->
            IF ok
            THEN /\ saves' = sv
                 /\ initPc' = "loadStrongs"
                 /\ UNCHANGED <<db, loadSource, initIdx, downloads>>
            ELSE /\ saves' = sv
                 /\ initPc' = "threw:save"
                 /\ UNCHANGED <<db, loadSource, initIdx, downloads>>

\* loadStrongNumbersDb()
loadStrongNumbersDb(sdb, blob) ==
    IF sdb.state # "null" THEN sdb
    ELSE IF ~blob.present THEN sdb
    ELSE IF ~isSqliteFile(blob) THEN sdb
    ELSE OpenDatabase(blob)

\* ---------------------------------------------------- init(): the actions
\* init() is called: `if (this.isReady) return`, then `await initSqlJs(...)`
InitCall ==
    /\ initPc = "idle"
    /\ ~isReady
    /\ initPc' = "initSqlJs"
    /\ atCall' = [cache |-> cache, serverFile |-> serverFile,
                  writing |-> \E j \in 1..Len(saves) : saves[j].pc = "setItem"]
    /\ UNCHANGED <<db, isReady, loadSource, serverAvailable, strongsDb, cache, serverFile,
                   envVars, appVars, initIdx, saves, downloads, clock, opsLeft, ret, cycles, failures>>

\* sql.js is loaded; `await this.checkServer()`
InitSqlJsLoaded ==
    /\ initPc = "initSqlJs"
    /\ initPc' = "checkServer"
    /\ UNCHANGED <<db, isReady, loadSource, serverAvailable, strongsDb, cache, serverFile,
                   envVars, appVars, initIdx, saves, downloads, clock, opsLeft, ret, histVars>>

\* the WebAssembly file cannot be fetched: initSqlJs rejects, init() throws
InitSqlJsFailed ==
    /\ initPc = "initSqlJs"
    /\ InitThrows("threw:initSqlJs")
    /\ UNCHANGED <<isReady, serverAvailable, strongsDb, cache, serverFile, envVars, appVars, clock,
                   opsLeft, ret, histVars>>

\* checkServer() answered: resp.ok of GET /status, false when the fetch throws
InitServerChecked ==
    /\ initPc = "checkServer"
    /\ serverAvailable' = serverUp
    /\ IF serverUp
       THEN /\ initPc' = "loadFromServer"
            /\ UNCHANGED <<db, loadSource, saves, initIdx, downloads>>
       ELSE AfterServerStep(db, loadSource, saves)
    /\ UNCHANGED <<isReady, strongsDb, cache, serverFile, envVars, appVars, clock, opsLeft, ret, histVars>>

\* loadFromServer() answered (a 404 and a fetch that throws both return false)
InitServerLoaded ==
    /\ initPc = "loadFromServer"
    /\ IF serverFile.present /\ isSqliteFile(serverFile)
       THEN AfterServerStep(OpenDatabase(serverFile), "server", saves)
       ELSE AfterServerStep(db, loadSource, saves)
    /\ UNCHANGED <<isReady, serverAvailable, strongsDb, cache, serverFile, envVars, appVars, clock,
                   opsLeft, ret, histVars>>

\* localforage.getItem(STORE_KEY) answered
InitCacheRead ==
    /\ initPc = "getItem"
    /\ \A j \in 1..Len(saves) : saves[j].pc \notin CacheOps
    /\ IF cache.present
       THEN IF isSqliteFile(cache)
            THEN Migrate(OpenDatabase(cache), "indexedDB", saves, downloads)
            ELSE /\ loadSource' = "invalid-cache"
                 /\ initPc' = "removeItem"
                 /\ UNCHANGED <<db, saves, initIdx, downloads>>
       ELSE /\ initPc' = "fetchPrebuilt"
            /\ initIdx' = 1
            /\ UNCHANGED <<db, loadSource, saves, downloads>>
    /\ UNCHANGED <<isReady, serverAvailable, strongsDb, cache, serverFile, envVars, appVars, clock,
                   opsLeft, ret, histVars>>

\* localforage.getItem rejects (storage not usable): init() throws
InitCacheReadFailed ==
    /\ initPc = "getItem"
    /\ InitThrows("threw:getItem")
    /\ UNCHANGED <<isReady, serverAvailable, strongsDb, cache, serverFile, envVars, appVars, clock,
                   opsLeft, ret, histVars>>

\* the invalid cache blob is reported but left in the cache
InitCacheClearedKeeps ==
    /\ initPc = "removeItem"
    /\ initPc' = "fetchPrebuilt"
    /\ initIdx' = 1
    /\ UNCHANGED <<db, isReady, loadSource, serverAvailable, strongsDb, cache, serverFile,
                   envVars, appVars, saves, downloads, clock, opsLeft, ret, histVars>>

\* localforage.removeItem(STORE_KEY) of the invalid cache blob is done
InitCacheCleared ==
    /\ initPc = "removeItem"
    /\ cache' = NoBlob
    /\ initPc' = "fetchPrebuilt"
    /\ initIdx' = 1
    /\ UNCHANGED <<db, isReady, loadSource, serverAvailable, strongsDb, serverFile, envVars, appVars,
                   saves, downloads, clock, opsLeft, ret, histVars>>

\* fetch(tryPaths[initIdx]) answered
InitPrebuiltFetched ==
    /\ initPc = "fetchPrebuilt"
    /\ LET buf == prebuilt[initIdx]
       IN IF buf.present /\ isSqliteFile(buf)
          THEN LET d == OpenDatabase(buf)
               IN /\ db' = d
                  /\ loadSource' = "prebuilt-file"
                  /\ saves' = save(saves, d, "prebuilt")
                  /\ initPc' = "prebuiltSave"
                  /\ UNCHANGED <<initIdx, downloads>>
          ELSE NextPath(initIdx, db, loadSource, saves)
    /\ UNCHANGED <<isReady, serverAvailable, strongsDb, cache, serverFile, envVars, appVars, clock,
                   opsLeft, ret, histVars>>

\* a loadStrongNumbersDb() without its try/catch: init() throws when the
\* reference dataset cannot be loaded
InitStrongsLoadedThrows ==
    /\ initPc = "loadStrongs"
    /\ \E blob \in StrongsBlobs :
        /\ strongsDb' = loadStrongNumbersDb(strongsDb, blob)
        /\ IF strongsDb'.state = "null"
           THEN isReady' = isReady /\ initPc' = "threw:query"
           ELSE isReady' = TRUE /\ initPc' = "done"
    /\ UNCHANGED <<db, loadSource, serverAvailable, cache, serverFile, envVars, appVars, initIdx,
                   saves, downloads, clock, opsLeft, ret, histVars>>

\* loadStrongNumbersDb() returned, whatever /strongs.sqlite answered:
\* `this.isReady = true`
InitStrongsLoaded ==
    /\ initPc = "loadStrongs"
    /\ \E blob \in StrongsBlobs : strongsDb' = loadStrongNumbersDb(strongsDb, blob)
    /\ isReady' = TRUE
    /\ initPc' = "done"
    /\ UNCHANGED <<db, loadSource, serverAvailable, cache, serverFile, envVars, appVars, initIdx, saves,
                   downloads, clock, opsLeft, ret, histVars>>

\* ------------------------------------------------- persistence: the actions
\* IndexedDB runs the write transactions of one store in the order they were
\* made: the oldest pending setItem is the one that ends.
OldestSetItem(i) ==
    /\ i \in 1..Len(saves)
    /\ saves[i].pc = "setItem"
    /\ \A j \in 1..(i - 1) : saves[j].pc \notin CacheOps

\* localforage.setItem resolved; save() goes on: `if (this.serverAvailable) await
\* this.pushToServer()`, which exports the engine again and posts it
CacheWriteDone ==
    \E i \in 1..Len(saves) :
        /\ OldestSetItem(i)
        /\ cache' = saves[i].data
        /\ IF serverAvailable /\ db.state # "null"
           THEN /\ saves' = [saves EXCEPT ![i] = Task("post", db, saves[i].awaiter)]
                /\ UNCHANGED <<db, loadSource, initPc, initIdx, downloads>>
           ELSE Resume(saves[i].awaiter, TRUE, RemoveAt(saves, i))
        /\ UNCHANGED <<isReady, serverAvailable, strongsDb, serverFile, envVars, appVars, clock, opsLeft,
                       ret, histVars>>

\* a rejected setItem that puts the engine back to the image of the cache
CacheWriteFailedUndoes ==
    \E i \in 1..Len(saves) :
        /\ OldestSetItem(i)
        /\ IF saves[i].awaiter = "none"
           THEN /\ saves' = RemoveAt(saves, i)
                /\ db' = IF isSqliteFile(cache) THEN OpenDatabase(cache) ELSE db
                /\ UNCHANGED <<loadSource, initPc, initIdx, downloads>>
           ELSE Resume(saves[i].awaiter, FALSE, RemoveAt(saves, i))
        /\ failures' = failures + 1
        /\ UNCHANGED <<isReady, serverAvailable, strongsDb, cache, serverFile, envVars, appVars, clock,
                       opsLeft, ret, atCall, cycles>>

\* localforage.setItem rejected (quota, storage error): save() rejects
CacheWriteFailed ==
    \E i \in 1..Len(saves) :
        /\ OldestSetItem(i)
        /\ Resume(saves[i].awaiter, FALSE, RemoveAt(saves, i))
        /\ failures' = failures + 1
        /\ UNCHANGED <<isReady, serverAvailable, strongsDb, cache, serverFile, envVars, appVars, clock,
                       opsLeft, ret, atCall, cycles>>

\* POST /lexicon.sqlite of the server: an empty body is refused, any other
\* body replaces the stored file.  Requests in flight are served in any order.
ServerStore(file, body) == IF Len(body.file.head) = 0 THEN file ELSE body

PushDone ==
    \E i \in 1..Len(saves) :
        /\ saves[i].pc = "post"
        /\ serverUp
        /\ serverFile' = ServerStore(serverFile, saves[i].data)
        /\ Resume(saves[i].awaiter, TRUE, RemoveAt(saves, i))
        /\ UNCHANGED <<isReady, serverAvailable, strongsDb, cache, envVars, appVars, clock, opsLeft, ret, histVars>>

\* a failed push that marks the server as not reachable
PushFailedClearsFlag ==
    \E i \in 1..Len(saves) :
        /\ saves[i].pc = "post"
        /\ Resume(saves[i].awaiter, TRUE, RemoveAt(saves, i))
        /\ failures' = failures + 1
        /\ serverAvailable' = FALSE
        /\ UNCHANGED <<isReady, strongsDb, cache, serverFile, envVars, appVars, clock,
                       opsLeft, ret, atCall, cycles>>

\* the POST failed (fetch threw or the answer is not ok): pushToServer returns false
PushFailed ==
    \E i \in 1..Len(saves) :
        /\ saves[i].pc = "post"
        /\ Resume(saves[i].awaiter, TRUE, RemoveAt(saves, i))
        /\ failures' = failures + 1
        /\ UNCHANGED <<isReady, serverAvailable, strongsDb, cache, serverFile, envVars, appVars, clock,
                       opsLeft, ret, atCall, cycles>>

\* ------------------------------------------------------------ resetDatabase
\* resetDatabase() up to `await localforage.removeItem(STORE_KEY)`; the App
\* offers "Create new database" once the service is ready
ResetDatabase ==
    /\ initPc = "done"
    /\ isReady
    /\ resets < MaxResets
    /\ saves' = Append(saves, [pc |-> "removeItem", data |-> NoBlob, awaiter |-> "reset"])
    /\ resets' = resets + 1
    /\ UNCHANGED <<db, isReady, loadSource, serverAvailable, strongsDb, cache, serverFile,
                   envVars, lookup, pages, cursor, requests, initPc, initIdx, downloads, clock,
                   opsLeft, ret, histVars>>

\* resetDatabase() that discards the engine but leaves the cache item
ResetClearedKeepsCache ==
    \E i \in 1..Len(saves) :
        /\ saves[i].pc = "removeItem"
        /\ \A j \in 1..(i - 1) : saves[j].pc \notin CacheOps
        /\ db' = NullDb
        /\ loadSource' = "null"
        /\ isReady' = FALSE
        /\ initPc' = "initSqlJs"
        /\ saves' = RemoveAt(saves, i)
        /\ atCall' = [cache |-> NoBlob, serverFile |-> serverFile,
                      writing |-> \E j \in 1..Len(saves) : saves[j].pc = "setItem"]
        /\ UNCHANGED <<serverAvailable, strongsDb, cache, serverFile, envVars, appVars, initIdx,
                       downloads, clock, opsLeft, ret, cycles, failures>>

\* resetDatabase() whose removeItem is done but which keeps the engine
ResetClearedKeepsEngine ==
    \E i \in 1..Len(saves) :
        /\ saves[i].pc = "removeItem"
        /\ \A j \in 1..(i - 1) : saves[j].pc \notin CacheOps
        /\ cache' = NoBlob
        /\ isReady' = FALSE
        /\ initPc' = "initSqlJs"
        /\ saves' = RemoveAt(saves, i)
        /\ atCall' = [cache |-> NoBlob, serverFile |-> serverFile,
                      writing |-> \E j \in 1..Len(saves) : saves[j].pc = "setItem"]
        /\ UNCHANGED <<db, loadSource, serverAvailable, strongsDb, serverFile, envVars, appVars,
                       initIdx, downloads, clock, opsLeft, ret, cycles, failures>>

\* the removeItem is done (after the cache writes queued before it);
\* `this.db = null; this.loadSource = null; this.isReady = false`, and
\* handleCreateNewDatabase goes on with `await dbService.init()`, which runs up
\* to `await initSqlJs(...)`
ResetCleared ==
    \E i \in 1..Len(saves) :
        /\ saves[i].pc = "removeItem"
        /\ \A j \in 1..(i - 1) : saves[j].pc \notin CacheOps
        /\ cache' = NoBlob
        /\ db' = NullDb
        /\ loadSource' = "null"
        /\ isReady' = FALSE
        /\ initPc' = "initSqlJs"
        /\ saves' = RemoveAt(saves, i)
        /\ atCall' = [cache |-> NoBlob, serverFile |-> serverFile,
                      writing |-> \E j \in 1..Len(saves) : saves[j].pc = "setItem"]
        /\ UNCHANGED <<serverAvailable, strongsDb, serverFile, envVars, appVars, initIdx,
                       downloads, clock, opsLeft, ret, cycles, failures>>

\* ------------------------------------------------- lookup and enrichment
\* the words of the pages, by name: their UTF-16 code units.  "w2": bet,
\* patah, final nun; "w3": alef, segol, bet, segol, tav; "w4": alef, bet,
\* dagesh, gimel, tav; any other name stands for Latin text
CodeUnits(word) ==
    CASE word = "" -> <<>>
      [] word = "w2" -> <<1489, 1463, 1503>>
      [] word = "w3" -> <<1488, 1462, 1489, 1462, 1514>>
      [] word = "w4" -> <<1488, 1489, 1468, 1490, 1514>>
      [] OTHER -> <<97>>

\* HEBREW_LETTER_REGEX = /[\u05D0-\u05EA]/g
HEBREW_LETTER_REGEX == 1488..1514

\* a count of the code units instead of the matches
countCodeUnits(value) == IF value = Undefined \/ value = "" THEN 0 ELSE Len(CodeUnits(value))

\* countHebrewLetters(value): `(value.match(HEBREW_LETTER_REGEX) || []).length`
countHebrewLetters(value) ==
    IF value = Undefined \/ value = "" THEN 0
    ELSE Len(SelectSeq(CodeUnits(value), LAMBDA c : c \in HEBREW_LETTER_REGEX))

\* strongsMatches.join('/')
RECURSIVE Join(_, _)
Join(list, sep) ==
    IF Len(list) = 0 THEN ""
    ELSE IF Len(list) = 1 THEN list[1]
    ELSE list[1] \o sep \o Join(Tail(list), sep)

\* getStrongNumbersFor(lemma) on the reference engine sdb: the numbers of the
\* rows of `SELECT number FROM strongs WHERE lemma = ?` that have one; the
\* empty list when there is no engine, no lemma, or the statement throws
getStrongNumbersFor(sdb, lemma) ==
    IF sdb.state = "null" \/ lemma = "" \/ lemma = Undefined THEN <<>>
    ELSE IF QueryThrows(sdb) \/ ~sdb.file.hasTable THEN <<>>
    ELSE LET hits == SelectSeq(sdb.file.rows, LAMBDA r : r.lemma = lemma /\ r.number # "")
         IN [k \in 1..Len(hits) |-> hits[k].number]

\* the enrichment of handleFilesSelected: `{...entry, isRoot:
\* countHebrewLetters(entry.hebrewWord) === 3, strongsNumbers: strongsMatches.length
\* > 0 ? strongsMatches.join('/') : undefined, ...}`
Enrich(entry, sdb) ==
    LET strongsMatches == getStrongNumbersFor(sdb, entry.hebrewWord)
    IN [entry EXCEPT !.isRoot = IF countHebrewLetters(entry.hebrewWord) = 3
                                THEN "true" ELSE "false",
                     !.strongsNumbers = IF Len(strongsMatches) > 0
                                        THEN Join(strongsMatches, "/") ELSE Undefined]

\* ------------------------------------------------------ the entry mutations
\* `value || ''` of an optional text field
OrEmpty(value) == IF value = Undefined THEN "" ELSE value

\* `entry.isRoot ? 1 : 0`
RootFlag(value) == IF value = "true" THEN "1" ELSE "0"

\* sql.js refuses to bind undefined: the fields handed over as they are
\* (id, hebrewWord, partOfSpeech, definition) make stmt.run throw when missing
BindThrows(entry) == entry.partOfSpeech = Undefined

\* the row one stmt.run([...]) writes
RowOf(entry, now) ==
    [hebrewWord |-> entry.hebrewWord,
     partOfSpeech |-> entry.partOfSpeech,
     root |-> OrEmpty(entry.root),
     isRoot |-> RootFlag(entry.isRoot),
     strongsNumbers |-> OrEmpty(entry.strongsNumbers),
     dateAdded |-> now]

\* INSERT OR IGNORE: a stored row with the id stays
InsertOrIgnore(rows, entry, now) ==
    [i \in DOMAIN rows \cup {entry.id} |-> IF i \in DOMAIN rows THEN rows[i] ELSE RowOf(entry, now)]

\* INSERT OR REPLACE INTO entries (...) VALUES (...)
InsertOrReplace(rows, entry, now) ==
    [i \in DOMAIN rows \cup {entry.id} |-> IF i = entry.id THEN RowOf(entry, now) ELSE rows[i]]

\* the for loop of addEntries from element k on: the rows of the open
\* transaction, and whether a stmt.run threw
RECURSIVE RunStatements(_, _, _, _)
RunStatements(rows, entries, k, now) ==
    IF k > Len(entries) THEN [rows |-> rows, failed |-> FALSE]
    ELSE IF BindThrows(entries[k]) THEN [rows |-> rows, failed |-> TRUE]
    ELSE RunStatements(InsertOrReplace(rows, entries[k], now), entries, k + 1, now)

\* no ROLLBACK: the rows written before the failure stay
RollbackMissing(before, inTransaction) == inTransaction

\* ROLLBACK: the rows as they were at BEGIN TRANSACTION
Rollback(before, inTransaction) == before

\* this.db.prepare(INSERT ...) throws: not a database, no entries table, or a
\* column of the statement is missing
PrepareThrows(d) == QueryThrows(d) \/ ~d.file.hasTable \/ d.file.cols # MigratedColumns

\* addEntries(entries) at time now on engine d
addEntries(d, entries, now) ==
    IF d.state = "null"
    THEN [db |-> d, saved |-> FALSE, rowFailed |-> FALSE, threw |-> FALSE, undone |-> FALSE]
    ELSE IF PrepareThrows(d)
    THEN [db |-> d, saved |-> FALSE, rowFailed |-> FALSE, threw |-> FALSE, undone |-> FALSE]
    ELSE LET run == RunStatements(d.file.rows, entries, 1, now)
         IN IF run.failed
            THEN [db |-> [d EXCEPT !.file.rows = Rollback(d.file.rows, run.rows)],
                  saved |-> FALSE, rowFailed |-> TRUE, threw |-> FALSE,
                  undone |-> run.rows # d.file.rows]
            ELSE [db |-> [d EXCEPT !.file.rows = run.rows],
                  saved |-> TRUE, rowFailed |-> FALSE, threw |-> FALSE, undone |-> FALSE]

\* DELETE FROM entries WHERE id = ? with the first id only
DeleteFirstRow(rows, ids) ==
    [i \in DOMAIN rows \ {ids[k] : k \in 1..(IF Len(ids) > 0 THEN 1 ELSE 0)} |-> rows[i]]

\* DELETE FROM entries WHERE id IN (?, ?, ...)
DeleteRows(rows, ids) ==
    [i \in DOMAIN rows \ {ids[k] : k \in 1..Len(ids)} |-> rows[i]]

\* deleteEntries without `ids.length === 0` in its guard
deleteEntriesNoLengthCheck(d, ids) ==
    IF d.state = "null" THEN [db |-> d, saved |-> FALSE, threw |-> FALSE]
    ELSE IF QueryThrows(d) \/ ~d.file.hasTable THEN [db |-> d, saved |-> FALSE, threw |-> FALSE]
    ELSE [db |-> [d EXCEPT !.file.rows = DeleteRows(d.file.rows, ids)],
          saved |-> TRUE, threw |-> FALSE]

\* deleteEntries(ids) on engine d
deleteEntries(d, ids) ==
    IF d.state = "null" \/ Len(ids) = 0 THEN [db |-> d, saved |-> FALSE, threw |-> FALSE]
    ELSE IF QueryThrows(d) \/ ~d.file.hasTable THEN [db |-> d, saved |-> FALSE, threw |-> FALSE]
    ELSE [db |-> [d EXCEPT !.file.rows = DeleteRows(d.file.rows, ids)],
          saved |-> TRUE, threw |-> FALSE]

\* mapResults: a row of the result as a LexiconEntry, isRoot as Boolean(value)
mapResults(id, row) ==
    [id |-> id, hebrewWord |-> row.hebrewWord, partOfSpeech |-> row.partOfSpeech,
     root |-> row.root,
     isRoot |-> IF row.isRoot = NoCol THEN NoCol ELSE IF row.isRoot = "0" THEN "false" ELSE "true",
     strongsNumbers |-> row.strongsNumbers, dateAdded |-> row.dateAdded]

\* getAllEntries() on engine d: the entries of `SELECT * FROM entries ORDER BY
\* dateAdded DESC` (as a set: the order among equal dateAdded is the engine's),
\* none when the statement throws
getAllEntries(d) ==
    IF d.state = "null" THEN {}
    ELSE IF QueryThrows(d) \/ ~d.file.hasTable THEN {}
    ELSE {mapResults(i, d.file.rows[i]) : i \in DOMAIN d.file.rows}

\* Date.now(): never goes back
Now(t) == t >= clock /\ t <= clock + 1 /\ t >= 1 /\ t <= MaxClock

\* dbService.addEntries(entries) and what it changes
AddEntriesStep(entries) ==
    /\ opsLeft > 0
    /\ \E now \in 1..MaxClock :
        /\ Now(now)
        /\ LET r == addEntries(db, entries, now)
           IN /\ db' = r.db
              /\ saves' = IF r.saved THEN save(saves, r.db, "none") ELSE saves
              /\ ret' = [op |-> "addEntries", threw |-> r.threw, rowFailed |-> r.rowFailed,
                         saved |-> r.saved,
                         replaced |-> r.saved /\ \E k \in 1..Len(entries) :
                                                   entries[k].id \in DOMAIN db.file.rows,
                         repeated |-> \E j, k \in 1..Len(entries) :
                                         j < k /\ entries[j].id = entries[k].id,
                         removed |-> FALSE, empty |-> Len(entries) = 0,
                         undone |-> r.undone]
              /\ clock' = now
              /\ cycles' = IF r.saved THEN cycles + 1 ELSE cycles
    /\ opsLeft' = opsLeft - 1
    /\ UNCHANGED <<isReady, loadSource, serverAvailable, strongsDb, cache, serverFile, envVars,
                   initPc, initIdx, downloads, atCall, failures>>

\* a caller runs dbService.addEntries(entries)
AddEntries(entries) ==
    /\ AddEntriesStep(entries)
    /\ UNCHANGED appVars

\* a caller runs dbService.deleteEntries(ids)
DeleteEntries(ids) ==
    /\ opsLeft > 0
    /\ LET r == deleteEntries(db, ids)
       IN /\ db' = r.db
          /\ saves' = IF r.saved THEN save(saves, r.db, "none") ELSE saves
          /\ ret' = [op |-> "deleteEntries", threw |-> r.threw, rowFailed |-> FALSE,
                     saved |-> r.saved, replaced |-> FALSE, repeated |-> FALSE,
                     removed |-> r.db # db, empty |-> Len(ids) = 0, undone |-> FALSE]
          /\ cycles' = IF r.saved THEN cycles + 1 ELSE cycles
    /\ opsLeft' = opsLeft - 1
    /\ UNCHANGED <<isReady, loadSource, serverAvailable, strongsDb, cache, serverFile, envVars, appVars,
                   initPc, initIdx, downloads, clock, atCall, failures>>

\* ------------------------------------------------------------- the inputs
SeqsUpTo(S, n) == UNION {[1..k -> S] : k \in 0..n}

\* entries as extractEntriesFromImage and the enrichment of handleFilesSelected
\* deliver them; partOfSpeech is not required of the extraction
SmallEntries ==
    [id : Ids, hebrewWord : {"a"}, partOfSpeech : {"n", Undefined}, root : {Undefined},
     isRoot : {"true"}, strongsNumbers : {Undefined}, dateAdded : {0}]

IdLists == SeqsUpTo(Ids, MaxLen)

CallNext ==
    \/ \E entries \in SeqsUpTo(SmallEntries, MaxLen) : AddEntries(entries)
    \/ \E ids \in IdLists : DeleteEntries(ids)

InitNext ==
    \/ InitCall
    \/ InitSqlJsLoaded
    \/ InitSqlJsFailed
    \/ InitServerChecked
    \/ InitServerLoaded
    \/ InitCacheRead
    \/ InitCacheReadFailed
    \/ InitCacheCleared
    \/ InitPrebuiltFetched
    \/ InitStrongsLoaded

PersistNext ==
    \/ CacheWriteDone
    \/ CacheWriteFailed
    \/ PushDone
    \/ PushFailed

Next ==
    \/ InitNext
    \/ PersistNext
    \/ CallNext

Spec == Init /\ [][Next]_vars

\* --------------------------------------------------------------- the App
\* the App shows its controls once the first init() has completed
AppReady == initPc = "done" \/ resets > 0

\* handleFilesSelected after `await extractEntriesFromImage(file)` delivered
\* extracted: the enrichment (one getStrongNumbersFor per entry), then
\* dbService.addEntries(enrichedEntries)
HandleFilesSelected(extracted) ==
    /\ AppReady
    /\ AddEntriesStep([k \in 1..Len(extracted) |-> Enrich(extracted[k], strongsDb)])
    /\ lookup' = IF Len(extracted) = 0 THEN lookup
                 ELSE getStrongNumbersFor(strongsDb, extracted[Len(extracted)].hebrewWord)
    /\ UNCHANGED <<resets, pages, cursor, requests>>

\* handleDeleteEntries(idsToDelete)
HandleDeleteEntries(ids) ==
    /\ AppReady
    /\ DeleteEntries(ids)

\* what extractEntriesFromImage delivers: isRoot and strongsNumbers are not
\* part of the response
Extracted ==
    [id : Ids, hebrewWord : {"w2", "w3", "w4"}, partOfSpeech : {"n"}, root : {Undefined},
     isRoot : {Undefined}, strongsNumbers : {Undefined}, dateAdded : {0}]

AppCallNext ==
    \/ \E extracted \in SeqsUpTo(Extracted, MaxLen) : HandleFilesSelected(extracted)
    \/ \E ids \in IdLists : HandleDeleteEntries(ids)

\* ------------------------------------------------- the page-processing loop
\* An error message is a sequence of fragments; Contains(fragment) are the
\* strings looked for by the code that occur in the fragment, as written.
Contains(fragment) ==
    CASE fragment = "429" -> {"429"}
      [] fragment = "400" -> {"400"}
      [] fragment = "INVALID_ARGUMENT" -> {"INVALID_ARGUMENT"}
      [] fragment = "Resource has been exhausted" -> {"Resource has been exhausted"}
      [] fragment = "Quota exceeded" -> {"Quota exceeded"}
      [] fragment = "quota exceeded" -> {"quota"}
      [] fragment = "api quota exceeded." -> {"quota"}
      [] fragment = "daily quota reached" -> {"quota"}
      [] OTHER -> {}

\* String.prototype.toLowerCase on a fragment
LowerCase(fragment) ==
    CASE fragment = "Quota exceeded" -> "quota exceeded"
      [] fragment = "API Quota Exceeded." -> "api quota exceeded."
      [] fragment = "INVALID_ARGUMENT" -> "invalid_argument"
      [] fragment = "Resource has been exhausted" -> "resource has been exhausted"
      [] OTHER -> fragment

toLowerCase(message) == [k \in 1..Len(message) |-> LowerCase(message[k])]

\* message.includes(needle)
Includes(message, needle) == \E k \in 1..Len(message) : needle \in Contains(message[k])

\* the messages extractEntriesFromImage throws in place of the API's
QuotaExceededMessage ==
    <<"API Quota Exceeded.", " Please check your billing or wait before trying again.">>
InvalidRequestMessage == <<"Invalid Request.", " The image format might not be supported.">>

\* what generateContent and the checks after it throw
RawErrors ==
    {<<"got status: ", "429">>,
     <<"Resource has been exhausted">>,
     <<"Quota exceeded", " for metric">>,
     <<"daily quota reached">>,
     <<"400", " Bad Request">>,
     <<"INVALID_ARGUMENT">>,
     <<"Generation stopped: SAFETY.">>,
     <<"No data returned from Gemini.">>}

\* the catch of extractEntriesFromImage: the message of the error it throws
MapError(raw) ==
    IF \/ Includes(raw, "429")
       \/ Includes(raw, "Resource has been exhausted")
       \/ Includes(raw, "Quota exceeded")
    THEN QuotaExceededMessage
    ELSE IF Includes(raw, "400") \/ Includes(raw, "INVALID_ARGUMENT")
    THEN InvalidRequestMessage
    ELSE raw

\* isQuotaError that looks for '429' only
isQuotaErrorOnly429(errorMessage) == Includes(errorMessage, "429")

\* `errorMessage.toLowerCase().includes('quota') || errorMessage.includes('429')`
isQuotaError(errorMessage) ==
    Includes(toLowerCase(errorMessage), "quota") \/ Includes(errorMessage, "429")

NoError == <<>>
Cancelled == <<"Cancelled: API Quota Exceeded">>

\* a ProcessedPage as far as the loop writes it
Page(status, error) == [status |-> status, error |-> error]

\* `for (...)` goes on after page `cursor` with the pages ps: the next page
\* becomes 'processing' and its extraction is requested, or the loop is over
Advance(ps) ==
    IF cursor < Len(ps)
    THEN /\ pages' = [ps EXCEPT ![cursor + 1].status = "processing"]
         /\ cursor' = cursor + 1
         /\ requests' = Append(requests, cursor + 1)
    ELSE /\ pages' = ps
         /\ cursor' = 0
         /\ requests' = requests

\* handleFilesSelected(files) with n files, up to the first `await
\* extractEntriesFromImage(file)`; the uploader hands over at least one file
\* and none while isProcessing
FilesSelected(n) ==
    /\ AppReady
    /\ cursor = 0
    /\ n >= 1
    /\ Len(pages) + n <= MaxPages
    /\ pages' = pages \o [k \in 1..n |-> Page(IF k = 1 THEN "processing" ELSE "pending", NoError)]
    /\ cursor' = Len(pages) + 1
    /\ requests' = Append(requests, Len(pages) + 1)
    /\ UNCHANGED <<db, isReady, loadSource, serverAvailable, strongsDb, cache, serverFile,
                   envVars, resets, lookup, initPc, initIdx, saves, downloads, clock, opsLeft,
                   ret, histVars>>

\* the extraction of page `cursor` delivered extracted: enrichment, addEntries,
\* the page becomes 'completed', and the loop goes on
PageExtracted(extracted) ==
    /\ cursor > 0
    /\ AddEntriesStep([k \in 1..Len(extracted) |-> Enrich(extracted[k], strongsDb)])
    /\ lookup' = IF Len(extracted) = 0 THEN lookup
                 ELSE getStrongNumbersFor(strongsDb, extracted[Len(extracted)].hebrewWord)
    /\ Advance([pages EXCEPT ![cursor] = Page("completed", NoError)])
    /\ UNCHANGED resets

\* the extraction of page `cursor` threw: the page becomes 'error'; on a quota
\* error every pending page becomes 'error' too and the loop breaks
PageFailed(raw) ==
    /\ cursor > 0
    /\ LET errorMessage == MapError(raw)
           updatedPages == [pages EXCEPT ![cursor] = Page("error", errorMessage)]
       IN IF isQuotaError(errorMessage)
          THEN /\ pages' = [k \in 1..Len(updatedPages) |->
                               IF updatedPages[k].status = "pending"
                               THEN Page("error", Cancelled) ELSE updatedPages[k]]
               /\ cursor' = 0
               /\ requests' = requests
          ELSE Advance(updatedPages)
    /\ UNCHANGED <<db, isReady, loadSource, serverAvailable, strongsDb, cache, serverFile,
                   envVars, resets, lookup, initPc, initIdx, saves, downloads, clock, opsLeft,
                   ret, histVars>>

\* the entries one page delivers
PageResults == {<<>>} \cup {<<e>> : e \in {x \in Extracted : x.hebrewWord = "w3"}}

PagesNext ==
    \/ \E n \in 1..MaxPages : FilesSelected(n)
    \/ \E extracted \in PageResults : PageExtracted(extracted)
    \/ \E raw \in RawErrors : PageFailed(raw)
    \/ PersistNext

\* ------------------------------------------------- a run with a reset in it
\* handleCreateNewDatabase: `await dbService.resetDatabase(); await
\* dbService.init()`
ResetNext ==
    \/ ResetDatabase
    \/ ResetCleared

SessionNext ==
    \/ InitNext
    \/ PersistNext
    \/ AppCallNext
    \/ ResetNext

\* the run starts as any run does; the second static path serves nothing and
\* the cache is not one of before the migrations (startup alone covers those)
SessionInit ==
    /\ Init
    /\ prebuilt[Len(tryPaths)] = NoBlob
    /\ cache # BlobOf(LegacyFile("cache"))

SpecSession == SessionInit /\ [][SessionNext]_vars

\* ------------------------------------------- a server that comes and goes
\* the Node server is started or stopped while the App runs
ServerChanges ==
    /\ serverUp' = ~serverUp
    /\ UNCHANGED <<db, isReady, loadSource, serverAvailable, strongsDb, cache, serverFile,
                   prebuilt, initPc, initIdx, saves, downloads, clock, opsLeft, ret, histVars,
                   appVars>>

\* the run of the App with no file at the static paths
ProbeInit ==
    /\ SessionInit
    /\ prebuilt[1] = NoBlob

ProbeNext ==
    \/ SessionNext
    \/ ServerChanges

SpecProbe == ProbeInit /\ [][ProbeNext]_vars

\* ------------------------------------------- startup on any kind of image
\* init() alone, with every kind of image in the server file, the cache and
\* the static paths
ImagesInit ==
    /\ db = NullDb
    /\ isReady = FALSE
    /\ loadSource = "null"
    /\ serverAvailable = FALSE
    /\ strongsDb = NullDb
    /\ cache \in CacheImages
    /\ serverUp \in BOOLEAN
    /\ serverFile \in ServerImages
    /\ prebuilt \in [1..Len(tryPaths) -> PrebuiltImages]
    /\ initPc = "idle"
    /\ initIdx = 1
    /\ saves = <<>>
    /\ downloads = 0
    /\ clock = 0
    /\ opsLeft = 0
    /\ ret = NoCall
    /\ atCall = [cache |-> cache, serverFile |-> serverFile, writing |-> FALSE]
    /\ cycles = 0
    /\ failures = 0
    /\ resets = 0
    /\ lookup = <<>>
    /\ pages = <<>>
    /\ cursor = 0
    /\ requests = <<>>

ImagesNext ==
    \/ InitNext
    \/ PersistNext

SpecImages == ImagesInit /\ [][ImagesNext]_vars

\* ------------------------------------------- a ready service and its callers
\* The states a finished init() leaves with nothing in flight: a fresh database
\* or the cached one without server, the server's copy, a fresh database that
\* was pushed to the server.
ReadyState ==
    /\ isReady = TRUE
    /\ initPc = "done"
    /\ strongsDb = NullDb
    /\ prebuilt = [i \in 1..Len(tryPaths) |-> NoBlob]
    /\ saves = <<>>
    /\ clock = 0
    /\ ret = NoCall
    /\ cycles = 0
    /\ failures = 0
    /\ resets = 0
    /\ lookup = <<>>
    /\ pages = <<>>
    /\ cursor = 0
    /\ requests = <<>>
    /\ \/ /\ loadSource = "fresh"
          /\ db = [NewDatabase EXCEPT !.file = SchemaFile]
          /\ serverUp = FALSE /\ serverAvailable = FALSE
          /\ cache = Export(db) /\ serverFile = NoBlob /\ downloads = 1
          /\ atCall = [cache |-> NoBlob, serverFile |-> NoBlob, writing |-> FALSE]
       \/ /\ loadSource = "indexedDB"
          /\ db = OpenDatabase(BlobOf(SampleFile("cache")))
          /\ serverUp = FALSE /\ serverAvailable = FALSE
          /\ cache = Export(db) /\ serverFile = NoBlob /\ downloads = 0
          /\ atCall = [cache |-> cache, serverFile |-> NoBlob, writing |-> FALSE]
       \/ /\ loadSource = "server"
          /\ db = OpenDatabase(BlobOf(SampleFile("server")))
          /\ serverUp = TRUE /\ serverAvailable = TRUE
          /\ cache = NoBlob /\ serverFile = Export(db) /\ downloads = 0
          /\ atCall = [cache |-> NoBlob, serverFile |-> serverFile, writing |-> FALSE]
       \/ /\ loadSource = "fresh"
          /\ db = [NewDatabase EXCEPT !.file = SchemaFile]
          /\ serverUp = TRUE /\ serverAvailable = TRUE
          /\ cache = Export(db) /\ serverFile = Export(db) /\ downloads = 0
          /\ atCall = [cache |-> NoBlob, serverFile |-> NoBlob, writing |-> FALSE]
    /\ initIdx = (IF loadSource = "fresh" THEN Len(tryPaths) ELSE 1)

StoreInit == ReadyState /\ opsLeft = MaxOps

\* entries with every field that addEntries treats in a way of its own: a
\* root word with isRoot set (as the enrichment sets it) and its root given, or
\* another word without root; partOfSpeech may be missing; the dateAdded the
\* caller supplies is there to be overwritten
RichEntry(id, word, pos) ==
    [id |-> id, hebrewWord |-> word, partOfSpeech |-> pos,
     root |-> IF word = "a" THEN "r" ELSE Undefined,
     isRoot |-> IF word = "a" THEN "true" ELSE "false",
     strongsNumbers |-> Undefined, dateAdded |-> 0]

RichEntries ==
    {RichEntry(id, word, pos) : id \in Ids, word \in {"a", "b"}, pos \in {"n", Undefined}}

StoreCallNext ==
    \/ \E entries \in SeqsUpTo(RichEntries, MaxLen) : AddEntries(entries)
    \/ \E ids \in IdLists : DeleteEntries(ids)

StoreNext ==
    \/ PersistNext
    \/ StoreCallNext

SpecStore == StoreInit /\ [][StoreNext]_vars

\* ------------------------------------------- uploads on a ready service
PagesInit == ReadyState /\ opsLeft = MaxPages

SpecPages == PagesInit /\ [][PagesNext]_vars


\* ------------------------------------------------------------------ claims
\* the candidate that ranks first among those available and valid when init()
\* was called: server, local cache, prebuilt file, fresh
ExpectedSource ==
    IF serverUp /\ isSqliteFile(atCall.serverFile) THEN "server"
    ELSE IF isSqliteFile(atCall.cache) THEN "indexedDB"
    ELSE IF \E i \in 1..Len(tryPaths) : isSqliteFile(prebuilt[i]) THEN "prebuilt-file"
    ELSE "fresh"

\* a step in which a caller's addEntries or deleteEntries ran and returned
CallReturned == opsLeft' # opsLeft

\* the bytes of blob begin with the magic header (spelled out byte by byte)
HasMagic(blob) ==
    /\ blob.present
    /\ Len(blob.file.head) >= Len(SQLITE_HEADER)
    /\ \A k \in 1..Len(SQLITE_HEADER) : blob.file.head[k] = SQLITE_HEADER[k]

\* C1: whenever init() has completed, getLoadSource() is the source of the
\* highest-priority candidate that was available and valid (server, then local
\* cache, then prebuilt file, then fresh).
C1_SourcePriority == initPc = "done" => loadSource = ExpectedSource

\* C2: an addEntries call in which a row fails leaves the in-memory store as it
\* was before the call, starts no persistence cycle and changes neither the
\* cache nor the server file.
C2_AllOrNothing ==
    [][(CallReturned /\ ret'.op = "addEntries" /\ ret'.rowFailed)
        => (db' = db /\ saves' = saves /\ cycles' = cycles /\ cache' = cache
            /\ serverFile' = serverFile)]_vars

\* a batch failed after rows of it had been written inside the transaction
C2_Witness == ret.op = "addEntries" /\ ret.rowFailed /\ ret.undone /\ ~ret.saved

\* C3: when a mutating call that changed the store returns, the Local
\* Persistent Cache holds the image of the store with that call's effects.
C3_DurableOnReturn ==
    [][(CallReturned /\ ret'.saved) => cache' = Export(db')]_vars

\* C4: with the server found reachable, no failed cache write or push, and all
\* persistence work of the calls finished, cache and server file both hold the
\* image of the final in-memory database.
C4_BackendsConverge ==
    (serverAvailable /\ failures = 0 /\ cycles > 0 /\ saves = <<>>)
        => (cache = Export(db) /\ serverFile = Export(db))

\* C5: the live database and the reference dataset are only ever opened from
\* bytes that begin with the magic header; init() never throws an engine error
\* for bytes without it, and the source it ends with delivered bytes with it.
C5_HeaderGate ==
    /\ db.state = "open" => HasMagic(Export(db))
    /\ strongsDb.state = "open" => HasMagic(Export(strongsDb))
    /\ initPc = "threw:query" => HasMagic(Export(db))
    /\ (initPc = "done" /\ loadSource = "server") => HasMagic(atCall.serverFile)
    /\ (initPc = "done" /\ loadSource = "indexedDB") => HasMagic(atCall.cache)
    /\ (initPc = "done" /\ loadSource = "prebuilt-file")
            => \E i \in 1..Len(tryPaths) : HasMagic(prebuilt[i])

\* init() got bytes without the header from the server, from the cache and from
\* the first static path, went on and opened the second static path
C5_Witness ==
    /\ initPc = "done"
    /\ serverAvailable
    /\ atCall.serverFile.present /\ ~HasMagic(atCall.serverFile)
    /\ atCall.cache.present /\ ~HasMagic(atCall.cache)
    /\ prebuilt[1].present /\ ~HasMagic(prebuilt[1])
    /\ loadSource = "prebuilt-file"
    /\ strongsDb.state = "null"

\* C6: an addEntries call in which a row fails ends with an explicit failure
\* signal to its caller.
C6_FailureSurfaced == (ret.op = "addEntries" /\ ret.rowFailed) => ret.threw

\* C7: a failed cache write or push changes neither the in-memory store nor
\* the outcome of the call that started it, which did not fail.
C7_PersistFailureStands ==
    [][(failures' # failures) => (db' = db /\ ret' = ret /\ ~ret.threw)]_vars

\* the cache write of a call that changed the store failed: the store keeps
\* the change, the cache does not have it
C7_Witness ==
    /\ failures > 0
    /\ ret.saved /\ ~ret.threw
    /\ saves = <<>>
    /\ cache.present
    /\ cache # Export(db)

\* every element of the list is a LexiconEntry: the required fields are there
WellTyped(entries) == \A k \in 1..Len(entries) : entries[k].partOfSpeech # Undefined

\* the row the entries table is to hold for entry, written at time now
StoredValues(entry, now) ==
    [hebrewWord |-> entry.hebrewWord,
     partOfSpeech |-> entry.partOfSpeech,
     root |-> IF entry.root = Undefined THEN "" ELSE entry.root,
     isRoot |-> IF entry.isRoot = "true" THEN "1" ELSE "0",
     strongsNumbers |-> IF entry.strongsNumbers = Undefined THEN "" ELSE entry.strongsNumbers,
     dateAdded |-> now]

LastWithId(entries, i) ==
    entries[CHOOSE k \in 1..Len(entries) :
                /\ entries[k].id = i
                /\ \A j \in (k + 1)..Len(entries) : entries[j].id # i]

UpsertPost(entries) ==
    LET ids == {entries[k].id : k \in 1..Len(entries)}
        before == db.file.rows
        after == db'.file.rows
    IN /\ DOMAIN after = DOMAIN before \cup ids
       /\ \A i \in ids : after[i] = StoredValues(LastWithId(entries, i), clock')
       /\ \A i \in DOMAIN before \ ids : after[i] = before[i]
       /\ clock' >= 1

DeletePost(ids) ==
    LET gone == {ids[k] : k \in 1..Len(ids)}
        before == db.file.rows
        after == db'.file.rows
    IN /\ DOMAIN after = DOMAIN before \ gone
       /\ \A i \in DOMAIN after : after[i] = before[i]
       /\ saves' = Append(saves, [pc |-> "setItem", data |-> Export(db'), awaiter |-> "none"])
       /\ cycles' = cycles + 1

\* C9: deleteEntries(ids) with a non-empty list on an open store removes exactly
\* the rows whose id is in ids, keeps every other row as it was, and starts
\* one persistence cycle with the image of the store after the delete.
C9_DeleteExactly ==
    [][\A ids \in IdLists :
          (Len(ids) > 0 /\ db.state = "open" /\ DeleteEntries(ids)) => DeletePost(ids)]_vars

\* a delete removed a row and left another one in the store
C9_Witness ==
    /\ ret.op = "deleteEntries" /\ ret.removed /\ ret.saved
    /\ DOMAIN db.file.rows # {}

\* C10: deleteEntries([]) changes neither the in-memory store nor the cache
\* nor the server file, and starts no cache write and no push.
C10_EmptyDeleteNoOp ==
    [][DeleteEntries(<<>>) => UNCHANGED <<db, cache, serverFile, saves, cycles>>]_vars

\* deleteEntries([]) returned on an open store that holds rows
C10_Witness ==
    /\ ret.op = "deleteEntries" /\ ret.empty /\ ~ret.saved
    /\ db.state = "open" /\ DOMAIN db.file.rows # {}

\* the blob the cache held when init() was called fails the header check
InvalidCacheAtCall == atCall.cache.present /\ ~HasMagic(atCall.cache)

NothingToLoad ==
    /\ ~serverUp
    /\ atCall.cache = NoBlob
    /\ \A i \in 1..Len(tryPaths) : ~HasMagic(prebuilt[i])

\* C12: with nothing to load, init() throws only if the engine or the cache
\* read fails, and when it completes the source is 'fresh' and the store
\* has an entries table; until a caller adds rows the table has no rows and
\* getAllEntries() returns no entry.
C12_FreshWhenNothing ==
    NothingToLoad =>
        /\ initPc \in ThrewPcs => initPc \in {"threw:initSqlJs", "threw:getItem"}
        /\ initPc = "done" =>
              /\ loadSource = "fresh"
              /\ db.state = "open" /\ db.file.hasTable /\ ~QueryThrows(db)
              /\ cycles = 0 => (db.file.rows = EmptyRows /\ getAllEntries(db) = {})

\* init() completed on nothing and no caller has added a row
C12_Witness ==
    /\ NothingToLoad
    /\ initPc = "done" /\ isReady
    /\ loadSource = "fresh"
    /\ cycles = 0
    /\ downloads = 1

\* no reset is under way: every resetDatabase() called so far has returned
NoResetPending == \A j \in 1..Len(saves) : saves[j].pc # "removeItem"

\* the tasks of sv that are requests to the server
Posts(sv) == {sv[j] : j \in {k \in 1..Len(sv) : sv[k].pc = "post"}}

\* C13: the call of resetDatabase() changes neither store, cache nor server
\* file; when it returns, the cache item is removed, the engine, the load
\* source and the readiness flag are discarded; neither step starts a request
\* to the server or changes the server's file.
C13_ResetFrame ==
    [][/\ resets' # resets
          => (UNCHANGED <<db, cache, serverFile, isReady, loadSource>>
              /\ Posts(saves') = Posts(saves))
       /\ (isReady /\ ~isReady')
          => (/\ cache' = NoBlob
              /\ db' = NullDb
              /\ loadSource' = "null"
              /\ serverFile' = serverFile
              /\ Posts(saves') \subseteq Posts(saves)
              /\ NoResetPending')]_vars

\* resetDatabase() has returned: the service is empty, the server still has
\* its file
C13_Witness ==
    /\ resets > 0 /\ NoResetPending
    /\ initPc = "initSqlJs"
    /\ ~isReady /\ db = NullDb /\ loadSource = "null" /\ cache = NoBlob
    /\ serverFile.present /\ HasMagic(serverFile)

\* init() run after a resetDatabase() has completed
InitAfterReset == resets > 0 /\ NoResetPending /\ initPc = "done"

Written(i) == i \notin DOMAIN db.file.rows \/ db.file.rows[i] # db'.file.rows[i]

\* C15: whatever /strongs.sqlite answers, init() goes on to completion; the
\* reference dataset changes only in that step of init(); while it is not
\* loaded every lookup returns the empty list and entries are stored without
\* Strong's numbers; the lookups of an ingestion change nothing of store,
\* cache, server file or persistence work beyond what its addEntries does (one
\* cycle when the batch is committed, nothing otherwise).
C15_StrongsFailureHarmless ==
    [][/\ (initPc = "loadStrongs" /\ initPc' # "loadStrongs") => (initPc' = "done" /\ isReady')
       /\ strongsDb' # strongsDb => initPc = "loadStrongs"
       /\ strongsDb'.state = "null" => lookup' = <<>>
       /\ (CallReturned /\ ret'.op = "addEntries" /\ ~ret'.saved)
          => UNCHANGED <<db, cache, serverFile, saves, cycles, strongsDb>>
       /\ (CallReturned /\ ret'.op = "addEntries" /\ ret'.saved)
          => (/\ cycles' = cycles + 1
              /\ Len(saves') = Len(saves) + 1
              /\ UNCHANGED <<cache, serverFile, strongsDb>>
              /\ strongsDb.state = "null"
                    => \A i \in DOMAIN db'.file.rows :
                          Written(i) => db'.file.rows[i].strongsNumbers = "")]_vars

\* the dataset failed to load, init() completed, and a word the dataset would
\* have known was ingested without Strong's numbers
C15_Witness ==
    /\ isReady /\ initPc = "done"
    /\ strongsDb.state = "null"
    /\ ret.op = "addEntries" /\ ret.saved
    /\ lookup = <<>>
    /\ \E i \in DOMAIN db.file.rows :
          db.file.rows[i].hebrewWord = "w3" /\ db.file.rows[i].strongsNumbers = ""

\* the letters alef to tav (final forms included) among the code units of word
HebrewConsonants(word) ==
    Cardinality({k \in DOMAIN CodeUnits(word) :
                    CodeUnits(word)[k] >= 1488 /\ CodeUnits(word)[k] <= 1514})

\* C17: every row written by an ingestion has isRoot = 1 exactly when its
\* hebrewWord has exactly 3 Hebrew consonant letters, and getAllEntries()
\* returns it with isRoot true exactly then.
C17_IsRootIffThreeLetters ==
    /\ \A i \in DOMAIN db.file.rows :
          db.file.rows[i].dateAdded >= 1
              => db.file.rows[i].isRoot
                    = (IF HebrewConsonants(db.file.rows[i].hebrewWord) = 3 THEN "1" ELSE "0")
    /\ \A e \in getAllEntries(db) :
          e.dateAdded >= 1
              => e.isRoot = (IF HebrewConsonants(e.hebrewWord) = 3 THEN "true" ELSE "false")

\* a page with a three-letter word and a four-letter word was ingested
C17_Witness ==
    /\ ret.op = "addEntries" /\ ret.saved
    /\ \E i, j \in DOMAIN db.file.rows :
          /\ db.file.rows[i].hebrewWord = "w3" /\ db.file.rows[i].isRoot = "1"
          /\ db.file.rows[j].hebrewWord = "w4" /\ db.file.rows[j].isRoot = "0"
          /\ db.file.rows[i].dateAdded >= 1 /\ db.file.rows[j].dateAdded >= 1

\* the engines ensureColumn can be given: none, a new one, the live one, and
\* one opened on any image that passes the header check
Engines ==
    {NullDb, NewDatabase, db}
        \cup {OpenDatabase(b) : b \in {c \in {cache, atCall.cache, serverFile, prebuilt[1],
                                                prebuilt[Len(tryPaths)]} : isSqliteFile(c)}}

\* C16: for each of the two migrated columns and every engine on which the
\* first run does not throw, a second ensureColumn returns false, leaves the
\* engine as the first run left it and does not throw; the first run reports a
\* change only if the column was missing and is there afterwards.
C16_EnsureColumnIdempotent ==
    \A d \in Engines : \A c \in MigratedColumns :
        ~QueryThrows(d) =>
            LET first == ensureColumn(d, c)
                second == ensureColumn(first[1], c)
            IN /\ ~QueryThrows(first[1])
               /\ second[2] = FALSE
               /\ second[1] = first[1]
               /\ first[2] => (c \notin d.file.cols /\ c \in first[1].file.cols)
               /\ ~first[2] => first[1] = d

\* init() opened a cached image from before the migrations and added both
\* columns to it
C16_Witness ==
    /\ initPc = "done"
    /\ loadSource = "indexedDB"
    /\ atCall.cache.present /\ atCall.cache.file.cols = {}
    /\ db.file.cols = MigratedColumns
    /\ ensureColumn(db, "isRoot")[2] = FALSE

\* the persistence cycles no caller awaits: suspended runs of the save() that
\* addEntries / deleteEntries started
FloatingCycles == {j \in 1..Len(saves) : saves[j].awaiter = "none"}

\* C18: at most one persistence cycle started by a mutation entry point is in
\* flight at any time (the cycle of one call has finished before the next call
\* changes the store and starts its own).
C18_OneCycleInFlight == Cardinality(FloatingCycles) <= 1

\* the step in which the cache write of task i completes and save() goes on
CacheWriteCompletes(i) ==
    /\ OldestSetItem(i)
    /\ failures' = failures
    /\ cache' = saves[i].data
    /\ \/ saves' = RemoveAt(saves, i)
       \/ Len(saves') = Len(saves) /\ saves'[i].pc = "post"

\* C19: when the cache write of a persistence cycle completes, the cache
\* holds the image the cycle serialized, a push is issued exactly if the
\* server is flagged reachable, and the push carries that same image.
C19_SameImagePushed ==
    [][\A i \in 1..Len(saves) :
          CacheWriteCompletes(i) =>
              /\ (Len(saves') = Len(saves)) <=> serverAvailable
              /\ Len(saves') = Len(saves) => saves'[i].data = saves[i].data]_vars

\* engine b is engine a changed in place by init(): same file, columns added
SameInstance(a, b) ==
    /\ b.state = "open"
    /\ b.file.head = a.file.head
    /\ b.file.sound = a.file.sound
    /\ b.file.hasTable = a.file.hasTable
    /\ a.file.cols \subseteq b.file.cols
    /\ DOMAIN b.file.rows = DOMAIN a.file.rows

\* C20: once init() has opened or created an engine, no step other than a
\* mutating call or a reset puts another engine in its place.
C20_CreatedOnce ==
    [][(db.state = "open" /\ db'.state = "open" /\ opsLeft' = opsLeft)
          => SameInstance(db, db')]_vars

\* a blob that passes the header check but is malformed behind the header
Malformed(blob) == isSqliteFile(blob) /\ ~blob.file.sound

\* C21: a header-valid blob that turns out malformed never makes init() fail
\* and never becomes the store init() completes with; when the cache held such
\* a blob and init() went past the cache, the blob is gone from the cache.
C21_MalformedSourceSkipped ==
    /\ initPc # "threw:query"
    /\ initPc = "done" => ~(db.state = "open" /\ Malformed(Export(db)))
    /\ (initPc = "done" /\ Malformed(atCall.cache) /\ loadSource \in {"prebuilt-file", "fresh"})
           => ~Malformed(cache)

\* C22: init() throws only when no engine could be opened or created at all
\* (sql.js itself did not load); after a throw the service is not ready and
\* no call changes the store.
C22_FailsOnlyWithoutStore ==
    /\ [](initPc \in ThrewPcs => (initPc = "threw:initSqlJs" /\ ~isReady))
    /\ [][(initPc \in ThrewPcs) => (db' = db)]_vars

\* the file after both migrations have altered it
MigratedFrom(f) == AddColumn(AddColumn(f, "isRoot"), "strongsNumbers")

\* the live engine holds an image from before the migrations, altered by them
SchemaChanged ==
    \E tag \in {"server", "cache", "prebuilt"} : db.file = MigratedFrom(LegacyFile(tag))

\* C23: when the service is ready, both migrated columns are in the entries
\* table, no save() of the migration step is still running, and if the
\* migrations changed the schema the cache holds the migrated image and, with
\* the server flagged reachable and no failed request, so does the server.
C23_MigratedBeforeReady ==
    isReady =>
        /\ db.file.hasTable => MigratedColumns \subseteq db.file.cols
        /\ \A j \in 1..Len(saves) : saves[j].awaiter # "migrate"
        /\ SchemaChanged =>
              /\ cache = Export(db)
              /\ (serverAvailable /\ failures = 0) => serverFile = Export(db)

\* ready on an image the migrations changed, pushed to the reachable server
C23_Witness ==
    /\ isReady
    /\ SchemaChanged
    /\ serverAvailable
    /\ cache = Export(db)
    /\ serverFile = Export(db)

\* C24: whenever init() has completed, the live store has an entries table
\* with the isRoot and strongsNumbers columns, and every row has a value in
\* both (the defaults 0 and '' for rows that were there before the columns).
C24_SchemaAfterInit ==
    initPc = "done" =>
        /\ db.state = "open"
        /\ db.file.hasTable
        /\ MigratedColumns \subseteq db.file.cols
        /\ \A i \in DOMAIN db.file.rows :
              /\ db.file.rows[i].isRoot # NoCol
              /\ db.file.rows[i].strongsNumbers # NoCol
        /\ SchemaChanged =>
              \A i \in DOMAIN db.file.rows :
                  db.file.rows[i].isRoot = "0" /\ db.file.rows[i].strongsNumbers = ""

\* the requests to the server that are in flight
PostsInFlight(sv) == {j \in 1..Len(sv) : sv[j].pc = "post"}

\* C25: serverAvailable changes only in the step that takes the answer of
\* the probe of init(), to what the probe found, and init() probes once, after
\* sql.js is loaded; a request is pushed only with the flag set, and with the
\* flag set every completed cache write of an open engine is followed by a
\* push, whatever failed before and whatever the server does meanwhile.
C25_FlagOnlyFromProbe ==
    [][/\ (serverAvailable' # serverAvailable)
            => (initPc = "checkServer" /\ serverAvailable' = serverUp)
       /\ (initPc' = "checkServer" /\ initPc # "checkServer") => initPc = "initSqlJs"
       /\ (initPc = "checkServer" /\ initPc' # "checkServer") => serverAvailable' = serverUp
       /\ Cardinality(PostsInFlight(saves')) > Cardinality(PostsInFlight(saves))
            => serverAvailable
       /\ \A i \in 1..Len(saves) :
             (CacheWriteCompletes(i) /\ db.state = "open" /\ serverAvailable)
                 => (Len(saves') = Len(saves) /\ saves'[i].pc = "post")]_vars

\* the server came up after the probe had found none: a mutating call was
\* persisted to the cache and nothing is sent to the server
C25_Witness ==
    /\ initPc = "done"
    /\ serverUp /\ ~serverAvailable
    /\ ret.saved
    /\ saves = <<>>
    /\ cache = Export(db)
    /\ serverFile = atCall.serverFile

\* the server went down after the probe: a push failed and the cycle of a
\* later call pushes again
C25_WitnessRetry ==
    /\ ~serverUp /\ serverAvailable
    /\ failures > 0
    /\ \E j \in PostsInFlight(saves) : saves[j].awaiter = "none"

\* C26: when init() has completed with source 'fresh' and the server was
\* found reachable, the push of the fresh step is over, no download was
\* offered, and the server holds the fresh image unless a request failed; when
\* the server was not found reachable, one download was offered, nothing is
\* sent to the server and the server file is as it was.
C26_FreshPushedOrDownloaded ==
    (initPc = "done" /\ loadSource = "fresh") =>
        IF serverAvailable
        THEN /\ \A j \in 1..Len(saves) : saves[j].awaiter # "fresh"
             /\ downloads = 0
             /\ failures = 0 => serverFile = Export(db)
        ELSE /\ downloads = 1
             /\ PostsInFlight(saves) = {}
             /\ serverFile = atCall.serverFile

\* a fresh database was created next to a reachable server that had no valid
\* file, and the server now holds the fresh image
C26_Witness ==
    /\ initPc = "done"
    /\ loadSource = "fresh"
    /\ serverAvailable
    /\ ~isSqliteFile(atCall.serverFile)
    /\ serverFile = Export(db)
    /\ downloads = 0

\* init() got to the prebuilt step: neither the server nor the cache gave an
\* image that passed the header check
PrebuiltStepReached ==
    /\ ~(serverAvailable /\ isSqliteFile(atCall.serverFile))
    /\ ~isSqliteFile(atCall.cache)

\* C27: a static path is fetched only if no path before it returned a
\* header-valid blob; when init() completes after the prebuilt step and some
\* path serves a header-valid blob, the source is 'prebuilt-file', the engine
\* holds the rows of the first such path, and the cache holds a valid image
\* (the engine's image, if no mutating call was made).
C27_FirstValidPathWins ==
    /\ initPc = "fetchPrebuilt" => \A k \in 1..(initIdx - 1) : ~isSqliteFile(prebuilt[k])
    /\ (initPc = "done" /\ PrebuiltStepReached
           /\ \E k \in 1..Len(tryPaths) : isSqliteFile(prebuilt[k]))
          => /\ loadSource = "prebuilt-file"
             /\ isSqliteFile(cache)
             /\ ret.op = "none" => cache = Export(db)

\* the values getLoadSource() may have after a successful init()
FinalSources == {"server", "indexedDB", "prebuilt-file", "fresh"}

\* C29: whenever init() has completed, loadSource is 'server', 'indexedDB',
\* 'prebuilt-file' or 'fresh': not null and not 'invalid-cache', also when an
\* invalid cache blob was found and removed on the way.
C29_FinalLoadSource ==
    (initPc = "done" /\ isReady) => loadSource \in FinalSources

\* init() has completed after it found and removed an invalid cache blob
C29_Witness ==
    /\ initPc = "done"
    /\ isReady
    /\ atCall.cache.present /\ ~isSqliteFile(atCall.cache)
    /\ ~(serverAvailable /\ isSqliteFile(atCall.serverFile))
    /\ loadSource \in {"prebuilt-file", "fresh"}

\* C30: whenever init() has completed, the cache item is the serialized
\* image of the live engine.
C30_CacheHoldsImage ==
    (initPc = "done" /\ isReady) => cache = Export(db)

\* the message of a page's error says quota or 429, in any case of letters
MentionsQuota(message) ==
    \E k \in 1..Len(message) :
        message[k] \in {"API Quota Exceeded.", "Quota exceeded", "daily quota reached", "429"}

\* one page at a time, in order: while the loop runs, the page it waits for is
\* the only one 'processing', the pages before it are done and the pages
\* after it 'pending'; when no loop runs no page is 'pending' or 'processing'
OnePageAtATime ==
    /\ cursor = 0 => \A k \in 1..Len(pages) : pages[k].status \in {"completed", "error"}
    /\ cursor > 0 =>
          /\ cursor <= Len(pages)
          /\ pages[cursor].status = "processing"
          /\ \A k \in 1..(cursor - 1) : pages[k].status \in {"completed", "error"}
          /\ \A k \in (cursor + 1)..Len(pages) : pages[k].status = "pending"
    /\ \A j, k \in 1..Len(requests) : j < k => requests[j] < requests[k]

\* C28: pages are extracted one at a time in order; when the page waited for
\* becomes 'error' with a quota message, every page after it is 'error', the
\* loop is over and no extraction is requested; with any other message the
\* next page, if there is one, is requested; after the loop no page is
\* 'pending' or 'processing'.
C28_PageLoop ==
    /\ []OnePageAtATime
    /\ [][(cursor > 0 /\ pages'[cursor].status = "error") =>
             IF MentionsQuota(pages'[cursor].error)
             THEN /\ cursor' = 0
                  /\ requests' = requests
                  /\ \A k \in cursor..Len(pages') : pages'[k].status = "error"
             ELSE IF cursor < Len(pages)
             THEN /\ cursor' = cursor + 1
                  /\ requests' = Append(requests, cursor + 1)
                  /\ pages'[cursor + 1].status = "processing"
             ELSE cursor' = 0 /\ requests' = requests]_vars

\* a quota error on the first of three pages cancelled the other two
C28_Witness ==
    /\ cursor = 0
    /\ Len(pages) = MaxPages
    /\ requests = <<1>>
    /\ MentionsQuota(pages[1].error)
    /\ \A k \in 2..Len(pages) : pages[k] = Page("error", Cancelled)

\* a page failed with another error and the page after it was completed
C28_WitnessOtherError ==
    /\ cursor = 0
    /\ Len(pages) >= 2
    /\ pages[1].status = "error" /\ ~MentionsQuota(pages[1].error)
    /\ pages[2].status = "completed"
    /\ ret.saved

====
